---- MODULE Spec2Model ----
(***************************************************************************)
(* A model of the Pl@ntNet MCP server: the HTTP client                     *)
(* (src/src/plantnet-client.ts) and the server factory with its tool       *)
(* handler (src/unnamed/part_003, the repository's server.ts).             *)
(*                                                                         *)
(* Text that ends up in a URL is a sequence of one-character strings, so   *)
(* that encodeURIComponent, the URL parser and String(n) are computed      *)
(* character by character.  Other text is a TLA+ string.                   *)
(***************************************************************************)
EXTENDS Integers, Sequences, FiniteSets, TLC

VARIABLES
    env,      \* process.env: the two credential variables
    server,   \* what createPlantNetServer() produced
    client,   \* the PlantNetClient instance (its private apiKey), or NoClient
    ctor,     \* the last constructor invocation: its argument and its outcome
    calls     \* the client calls, by call id: the position and locals of each

vars == <<env, server, client, ctor, calls>>

-----------------------------------------------------------------------------
(* Bounds of the model *)

\* image and organ lists have 0..MaxLen elements (MAX_IMAGES + 1 reaches the
\* over-limit case)
MaxLen == 6

\* project strings have 0..MaxProjectLen characters
MaxProjectLen == 2

-----------------------------------------------------------------------------
(* Program constants *)

MAX_IMAGES == 5

DEFAULT_NB_RESULTS == 5

BASE_URL == <<"m", "y", "-", "a", "p", "i", ".", "p", "l", "a", "n", "t", "n", "e", "t", ".", "o", "r", "g">>

DEFAULT_PROJECT == <<"a", "l", "l">>

DEFAULT_LANG == <<"e", "n">>

IDENTIFY_PATH == <<"/", "v", "2", "/", "i", "d", "e", "n", "t", "i", "f", "y", "/">>

PROJECTS_PATH == <<"/", "v", "2", "/", "p", "r", "o", "j", "e", "c", "t", "s">>

-----------------------------------------------------------------------------
(* Helpers on sequences *)

RECURSIVE Concat(_)
\* the concatenation of a sequence of sequences
Concat(ss) == IF ss = <<>> THEN <<>> ELSE Head(ss) \o Concat(Tail(ss))

\* the sequence of length n that repeats seed s
CycleSeq(s, n) == [i \in 1..n |-> s[((i - 1) % Len(s)) + 1]]

\* all sequences over S of length 0..n
SeqsUpTo(S, n) == UNION {[1..k -> S] : k \in 0..n}

\* an optional field of an arguments object, with its destructuring default
Has(args, f) == f \in DOMAIN args

Get(args, f, d) == IF Has(args, f) THEN args[f] ELSE d

WithField(r, k, v) == [x \in DOMAIN r \cup {k} |-> IF x = k THEN v ELSE r[x]]

-----------------------------------------------------------------------------
(* Text conversions *)

\* the characters encodeURIComponent leaves as they are (those the model uses)
Unreserved ==
    {"a", "b", "c", "d", "e", "f", "g", "h", "i", "j", "k", "l", "m", "n", "o", "p",
     "q", "r", "s", "t", "u", "v", "w", "x", "y", "z",
     "0", "1", "2", "3", "4", "5", "6", "7", "8", "9",
     "-", "_", ".", "!", "~", "*", "'", "(", ")"}

\* the percent code of a character outside Unreserved
PercentCode(ch) ==
    CASE ch = "/" -> <<"%", "2", "F">>
      [] ch = "?" -> <<"%", "3", "F">>
      [] ch = "#" -> <<"%", "2", "3">>
      [] ch = "%" -> <<"%", "2", "5">>
      [] ch = "&" -> <<"%", "2", "6">>
      [] ch = "=" -> <<"%", "3", "D">>
      [] ch = " " -> <<"%", "2", "0">>

\* encodeURIComponent(str)
EncodeURIComponent(str) ==
    Concat([i \in 1..Len(str) |->
              IF str[i] \in Unreserved THEN <<str[i]>> ELSE PercentCode(str[i])])

Digits == <<"0", "1", "2", "3", "4", "5", "6", "7", "8", "9">>

RECURSIVE NumToString(_)
\* String(n) of a natural number
NumToString(n) ==
    IF n < 10 THEN <<Digits[n + 1]>>
    ELSE NumToString(n \div 10) \o <<Digits[(n % 10) + 1]>>

\* the index of the first element of s in set S, or 0
FirstIn(s, S) ==
    IF \E i \in 1..Len(s) : s[i] \in S
    THEN CHOOSE i \in 1..Len(s) : s[i] \in S /\ \A j \in 1..(i - 1) : s[j] \notin S
    ELSE 0

RECURSIVE Split(_, _)
\* s.split(sep): the pieces of s between occurrences of the character sep
Split(s, sep) ==
    LET k == FirstIn(s, {sep})
    IN  IF k = 0 THEN <<s>>
        ELSE <<SubSeq(s, 1, k - 1)>> \o Split(SubSeq(s, k + 1, Len(s)), sep)

RECURSIVE PathSegments(_, _)
\* The URL parser's path state over the raw segments still to come: a ".."
\* segment removes the segment before it, a "." segment is dropped, and either
\* of them at the end of the path leaves an empty last segment.
PathSegments(raw, path) ==
    IF raw = <<>> THEN path
    ELSE LET seg    == Head(raw)
             last   == Len(raw) = 1
             popped == IF path = <<>> THEN path ELSE SubSeq(path, 1, Len(path) - 1)
         IN  IF seg = <<".", ".">>
             THEN PathSegments(Tail(raw), IF last THEN Append(popped, <<>>) ELSE popped)
             ELSE IF seg = <<".">>
             THEN PathSegments(Tail(raw), IF last THEN Append(path, <<>>) ELSE path)
             ELSE PathSegments(Tail(raw), Append(path, seg))

\* the name/value pair of one piece of a query string
QueryPair(piece) ==
    LET k == FirstIn(piece, {"="})
    IN  IF k = 0 THEN [k |-> piece, v |-> <<>>]
        ELSE [k |-> SubSeq(piece, 1, k - 1), v |-> SubSeq(piece, k + 1, Len(piece))]

\* the pairs of a query string
QueryPairs(q) ==
    LET pieces == SelectSeq(Split(q, "&"), LAMBDA p : p # <<>>)
    IN  [i \in 1..Len(pieces) |-> QueryPair(pieces[i])]

\* new URL(input, base) for an input that starts with "/": the base's host, the
\* path up to the first "?" or "#", the query between "?" and "#"
NewURL(input, base) ==
    LET h     == FirstIn(input, {"#"})
        noFr  == IF h = 0 THEN input ELSE SubSeq(input, 1, h - 1)
        q     == FirstIn(noFr, {"?"})
        pathS == IF q = 0 THEN noFr ELSE SubSeq(noFr, 1, q - 1)
        qS    == IF q = 0 THEN <<>> ELSE SubSeq(noFr, q + 1, Len(noFr))
    IN  [host  |-> base,
         path  |-> PathSegments(Tail(Split(pathS, "/")), <<>>),
         query |-> QueryPairs(qS)]

\* url.searchParams.set(name, value): the first pair of that name takes the
\* value and the other pairs of that name go; a new name is appended
SearchParamsSet(url, name, value) ==
    LET q     == url.query
        k     == IF \E i \in 1..Len(q) : q[i].k = name
                 THEN CHOOSE i \in 1..Len(q) :
                        q[i].k = name /\ \A j \in 1..(i - 1) : q[j].k # name
                 ELSE 0
        idx   == {i \in 1..Len(q) : q[i].k # name \/ i = k}
        keep  == SelectSeq([i \in 1..Len(q) |-> [at |-> i, p |-> q[i]]],
                           LAMBDA e : e.at \in idx)
    IN  [url EXCEPT !.query =
            IF k = 0 THEN Append(q, [k |-> name, v |-> value])
            ELSE [i \in 1..Len(keep) |->
                    IF keep[i].at = k THEN [k |-> name, v |-> value] ELSE keep[i].p]]

\* the value url.searchParams.get(name) gives, as a sequence of 0 or 1 values
SearchParamsGet(url, name) ==
    LET hits == SelectSeq(url.query, LAMBDA p : p.k = name)
    IN  IF hits = <<>> THEN <<>> ELSE <<hits[1].v>>

-----------------------------------------------------------------------------
(* Values of the model *)

NoClient == [none |-> TRUE]

NoOutcome == [kind |-> "none"]

Return(v) == [kind |-> "return", value |-> v]

Throw(e) == [kind |-> "throw", error |-> e]

\* new Error(message); a message is the sequence of the parts of its template
Error(msg) == [name |-> "Error", message |-> msg]

\* what fetch() rejects with when no response arrives
FetchFailed == [name |-> "TypeError", message |-> <<"fetch failed">>]

\* what response.json() rejects with when the body is no JSON text
JsonSyntaxError == [name |-> "SyntaxError", message |-> <<"Unexpected token">>]

\* Response.ok
Ok(resp) == resp.status >= 200 /\ resp.status <= 299

\* a response body is a text: the JSON text of a value, or no JSON text at all
JsonText(v) == [text |-> "json", value |-> v]

NotJson == [text |-> "other"]

\* JSON.stringify(v)
JsonStringify(v) == JsonText(v)

\* response.json(): the value of a JSON text, as a sequence of 0 or 1 values
JsonParse(body) == IF body.text = "json" THEN <<body.value>> ELSE <<>>

P_API_KEY == <<"a", "p", "i", "-", "k", "e", "y">>

P_LANG == <<"l", "a", "n", "g">>

P_NB_RESULTS == <<"n", "b", "-", "r", "e", "s", "u", "l", "t", "s">>

P_RELATED == <<"i", "n", "c", "l", "u", "d", "e", "-", "r", "e", "l", "a", "t", "e", "d", "-", "i", "m", "a", "g", "e", "s">>

V_FALSE == <<"f", "a", "l", "s", "e">>

CT_JPEG == <<"image", "/", "jpeg">>

CT_PNG == <<"image", "/", "png">>

-----------------------------------------------------------------------------
(* Inputs: the arguments of the calls and the responses of the network *)

Keys == {<<>>, <<"k", "1">>, <<"k", "2">>}

Urls == {"http://a/1", "http://b/2"}

OrganTags == {"leaf", "flower"}

UrlSeeds == SeqsUpTo(Urls, 2) \ {<<>>}

OrganSeeds == SeqsUpTo(OrganTags, 2) \ {<<>>}

\* the lists of 0..MaxLen elements that repeat a seed
ListsOf(seeds) == {CycleSeq(s, n) : s \in seeds, n \in 0..MaxLen}

UrlLists == ListsOf(UrlSeeds)

OrganLists == ListsOf(OrganSeeds)

Shapes == [image_urls : UrlLists, organs : OrganLists]

ProjectChars == {"a", ".", "/"}

Projects == SeqsUpTo(ProjectChars, MaxProjectLen)

Langs == {<<"e", "n">>, <<"f", "r">>}

NbResults == {3, 25}

\* the arguments objects that give some, all or none of the optional fields
WithOptional(base, f, values) == base \cup {WithField(r, f, v) : r \in base, v \in values}

\* a list of at most one or of more than MAX_IMAGES elements
Extreme(list) == Len(list) <= 1 \/ Len(list) > MAX_IMAGES

\* every shape with no optional field, and the shapes of extreme lists with
\* every choice of the optional fields
IdentifyArgs ==
    Shapes \cup
    WithOptional(
        WithOptional(
            WithOptional({s \in Shapes : Extreme(s.image_urls) /\ Extreme(s.organs)},
                         "project", Projects),
            "lang", Langs),
        "nb_results", NbResults)

ListArgs == {<<>>} \cup {<<l>> : l \in Langs}

StatusText(status) ==
    CASE status = 200 -> "OK"
      [] status = 401 -> "Unauthorized"
      [] status = 403 -> "Forbidden"
      [] status = 404 -> "Not Found"

HttpResponse(status, contentType, body) ==
    [kind |-> "response", status |-> status, statusText |-> StatusText(status),
     contentType |-> contentType, body |-> body]

NoResponse == [kind |-> "reject"]

\* what an image locator may answer: bytes with no declared type, with a png
\* type, with a jpeg type; a 404; or no response
ImageResponses ==
    {HttpResponse(200, <<>>, "bytesA"),
     HttpResponse(200, <<CT_PNG>>, "bytesB"),
     HttpResponse(200, <<CT_JPEG>>, "bytesA"),
     HttpResponse(404, <<>>, "gone"),
     NoResponse}

Oak ==
    [score |-> 9234,
     species |-> [scientificNameWithoutAuthor |-> "Quercus robur",
                  scientificNameAuthorship |-> "L.",
                  family |-> [scientificNameWithoutAuthor |-> "Fagaceae"],
                  genus |-> [scientificNameWithoutAuthor |-> "Quercus"],
                  commonNames |-> <<"English oak", "pedunculate oak">>],
     gbif |-> [id |-> "2878688"], powo |-> [id |-> "490509-1"]]

Rose ==
    [score |-> 415,
     species |-> [scientificNameWithoutAuthor |-> "Rosa canina",
                  scientificNameAuthorship |-> "",
                  family |-> [scientificNameWithoutAuthor |-> "Rosaceae"],
                  genus |-> [scientificNameWithoutAuthor |-> "Rosa"],
                  commonNames |-> <<>>]]

Mint ==
    [score |-> 9234,
     species |-> [scientificNameWithoutAuthor |-> "Mentha spicata",
                  scientificNameAuthorship |-> "L.",
                  family |-> [scientificNameWithoutAuthor |-> "Lamiaceae"],
                  genus |-> [scientificNameWithoutAuthor |-> "Mentha"],
                  commonNames |-> <<"spearmint", "garden mint", "lamb mint", "mackerel mint">>],
     gbif |-> [id |-> "2927173"]]

Fern ==
    [score |-> 50,
     species |-> [scientificNameWithoutAuthor |-> "Pteridium aquilinum",
                  scientificNameAuthorship |-> "(L.) Kuhn",
                  family |-> [scientificNameWithoutAuthor |-> "Dennstaedtiaceae"],
                  genus |-> [scientificNameWithoutAuthor |-> "Pteridium"],
                  commonNames |-> <<"bracken">>],
     powo |-> [id |-> "17210060-1"]]

\* a candidate whose authorship the service left out
Moss ==
    [score |-> 1200,
     species |-> [scientificNameWithoutAuthor |-> "Sphagnum palustre",
                  family |-> [scientificNameWithoutAuthor |-> "Sphagnaceae"],
                  genus |-> [scientificNameWithoutAuthor |-> "Sphagnum"],
                  commonNames |-> <<"blunt-leaved bogmoss", "prairie sphagnum", "peat moss">>]]

\* a candidate whose only common name is the empty string
Reed ==
    [score |-> 7000,
     species |-> [scientificNameWithoutAuthor |-> "Phragmites australis",
                  scientificNameAuthorship |-> "(Cav.) Trin. ex Steud.",
                  family |-> [scientificNameWithoutAuthor |-> "Poaceae"],
                  genus |-> [scientificNameWithoutAuthor |-> "Phragmites"],
                  commonNames |-> <<"">>],
     gbif |-> [id |-> "5290149"], powo |-> [id |-> "30000842-2"]]

IdentifyBodies ==
    {[bestMatch |-> "Quercus robur L.", results |-> <<Oak, Rose>>,
      remainingIdentificationRequests |-> 450, version |-> "2.1"],
     [bestMatch |-> "Rosa canina", results |-> <<Rose, Oak>>,
      remainingIdentificationRequests |-> 0, version |-> "2.1"],
     [message |-> "Unauthorized"]}

\* what the identification service may answer
PostResponses ==
    {HttpResponse(st, <<>>, b) :
        st \in {200, 401}, b \in {JsonText(v) : v \in IdentifyBodies} \cup {NotJson}}
    \cup {NoResponse}

\* a JSON object of the directory is the sequence of its members, in text order
ProjectBodies ==
    {<<[key |-> "all", info |-> [id |-> "all", name |-> "World Flora"]],
       [key |-> "weurope", info |-> [id |-> "weurope", name |-> "Western Europe"]]>>,
     <<[key |-> "weurope", info |-> [name |-> "Western Europe"]],
       [key |-> "all", info |-> [id |-> "all"]]>>}

\* what the project directory may answer
ListResponses ==
    {HttpResponse(st, <<>>, b) :
        st \in {200, 403}, b \in {JsonText(v) : v \in ProjectBodies} \cup {NotJson}}
    \cup {NoResponse}

CallIds == {1}

-----------------------------------------------------------------------------
(* PlantNetClient *)

\* a faulty variant of Construct: the empty credential is accepted
ConstructUnchecked(apiKey) == [outcome |-> Return("client"), client |-> [apiKey |-> apiKey]]

\* new PlantNetClient(apiKey): the instance, or the error thrown
Construct(apiKey) ==
    IF apiKey = <<>>
    THEN [outcome |-> Throw(Error(<<"PLANTNET_API_KEY is required">>)), client |-> NoClient]
    ELSE [outcome |-> Return("client"), client |-> [apiKey |-> apiKey]]

\* a faulty variant of Validate: the over-limit check is missing
ValidateNoLimit(args) ==
    IF Len(args.image_urls) = 0
    THEN <<Error(<<"At least one image URL is required">>)>>
    ELSE IF Len(args.image_urls) # Len(args.organs)
    THEN <<Error(<<"Number of image_urls must match number of organs">>)>>
    ELSE <<>>

\* a faulty variant of Validate: the limit is checked before the lengths are compared
ValidateLimitFirst(args) ==
    IF Len(args.image_urls) = 0
    THEN <<Error(<<"At least one image URL is required">>)>>
    ELSE IF Len(args.image_urls) > MAX_IMAGES
    THEN <<Error(<<"Maximum 5 images per request">>)>>
    ELSE IF Len(args.image_urls) # Len(args.organs)
    THEN <<Error(<<"Number of image_urls must match number of organs">>)>>
    ELSE <<>>

\* the checks at the head of identifyPlant: the error thrown, if any
Validate(args) ==
    IF Len(args.image_urls) = 0
    THEN <<Error(<<"At least one image URL is required">>)>>
    ELSE IF Len(args.image_urls) # Len(args.organs)
    THEN <<Error(<<"Number of image_urls must match number of organs">>)>>
    ELSE IF Len(args.image_urls) > MAX_IMAGES
    THEN <<Error(<<"Maximum 5 images per request">>)>>
    ELSE <<>>

\* contentType.includes('png')
IncludesPng(contentType) == \E k \in 1..Len(contentType) : contentType[k] = "png"

\* a faulty variant of ImagePart: every file is named .jpg
ImagePartAlwaysJpg(i, resp) ==
    LET contentType == IF resp.contentType = <<>> \/ resp.contentType[1] = <<>>
                       THEN CT_JPEG ELSE resp.contentType[1]
    IN  [name |-> "images", data |-> resp.body,
         filename |-> <<"image", i, ".", "jpg">>, contentType |-> contentType]

\* the images part appended for the image of 0-based index i
ImagePart(i, resp) ==
    LET contentType == IF resp.contentType = <<>> \/ resp.contentType[1] = <<>>
                       THEN CT_JPEG ELSE resp.contentType[1]
        ext         == IF IncludesPng(contentType) THEN "png" ELSE "jpg"
    IN  [name |-> "images", data |-> resp.body,
         filename |-> <<"image", i, ".", ext>>, contentType |-> contentType]

\* a faulty variant of OrganPart: every image is tagged with the first organ
OrganPartFirst(args, i) == [name |-> "organs", value |-> args.organs[1]]

\* the organs part appended for the image of 0-based index i
OrganPart(args, i) == [name |-> "organs", value |-> args.organs[i + 1]]

\* a faulty variant of IdentifyUrl: nb-results is not set
IdentifyUrlNoNb(apiKey, args) ==
    LET project == Get(args, "project", DEFAULT_PROJECT)
        lang    == Get(args, "lang", DEFAULT_LANG)
        u0 == NewURL(IDENTIFY_PATH \o EncodeURIComponent(project), BASE_URL)
        u1 == SearchParamsSet(u0, P_API_KEY, apiKey)
        u2 == SearchParamsSet(u1, P_LANG, lang)
    IN  SearchParamsSet(u2, P_RELATED, V_FALSE)

\* the endpoint of the identification request
IdentifyUrl(apiKey, args) ==
    LET project    == Get(args, "project", DEFAULT_PROJECT)
        lang       == Get(args, "lang", DEFAULT_LANG)
        nb_results == Get(args, "nb_results", DEFAULT_NB_RESULTS)
        u0 == NewURL(IDENTIFY_PATH \o EncodeURIComponent(project), BASE_URL)
        u1 == SearchParamsSet(u0, P_API_KEY, apiKey)
        u2 == SearchParamsSet(u1, P_LANG, lang)
        u3 == SearchParamsSet(u2, P_NB_RESULTS, NumToString(nb_results))
    IN  SearchParamsSet(u3, P_RELATED, V_FALSE)

\* the endpoint of the project directory request
ProjectsUrl(apiKey, largs) ==
    LET lang == IF largs = <<>> THEN DEFAULT_LANG ELSE largs[1]
        u0 == NewURL(PROJECTS_PATH, BASE_URL)
        u1 == SearchParamsSet(u0, P_API_KEY, apiKey)
    IN  SearchParamsSet(u1, P_LANG, lang)

ImageFetch(url) == [method |-> "GET", url |-> url]

IdentifyPost(url, form) == [method |-> "POST", url |-> url, body |-> form]

ProjectsGet(url) == [method |-> "GET", url |-> url]

\* a call: the operation and its arguments, where it stands, its locals (i,
\* form), the requests it issued and the answers it got, its outcome; and for a
\* call made by the tool handler, the tool and the handler's outcome
IdleCall ==
    [op |-> "none", pc |-> "idle", args |-> <<>>, i |-> 0, form |-> <<>>,
     reqs |-> <<>>, resps |-> <<>>, outcome |-> NoOutcome,
     tool |-> "none", toolArgs |-> <<>>, toolOutcome |-> NoOutcome]

\* the call ends with outcome o
Finish(call, o) == [call EXCEPT !.pc = "done", !.outcome = o]

\* a faulty variant of StartIdentify: every image is asked for at once
StartIdentifyAllAtOnce(args) ==
    LET start == [IdleCall EXCEPT !.op = "identifyPlant", !.args = args]
    IN  IF Validate(args) # <<>>
        THEN Finish(start, Throw(Validate(args)[1]))
        ELSE [start EXCEPT !.pc = "awaitImage",
                           !.reqs = [k \in 1..Len(args.image_urls) |->
                                        ImageFetch(args.image_urls[k])]]

\* identifyPlant up to its first await: the checks, then the first image request
StartIdentify(args) ==
    LET start == [IdleCall EXCEPT !.op = "identifyPlant", !.args = args]
    IN  IF Validate(args) # <<>>
        THEN Finish(start, Throw(Validate(args)[1]))
        ELSE [start EXCEPT !.pc = "awaitImage",
                           !.reqs = <<ImageFetch(args.image_urls[1])>>]

\* a faulty variant of AfterImage: a failed image is skipped and the loop goes on
AfterImageSkipFailed(apiKey, call, resp) ==
    LET got  == [call EXCEPT !.resps = Append(@, resp)]
        url  == call.args.image_urls[call.i + 1]
        form == IF resp.kind = "response" /\ Ok(resp)
                THEN call.form \o <<ImagePart(call.i, resp), OrganPart(call.args, call.i)>>
                ELSE call.form
        next == call.i + 1
    IN  IF next < Len(call.args.image_urls)
        THEN [got EXCEPT !.form = form, !.i = next,
                         !.reqs = Append(@, ImageFetch(call.args.image_urls[next + 1]))]
        ELSE [got EXCEPT !.form = form, !.i = next, !.pc = "awaitPost",
                         !.reqs = Append(@, IdentifyPost(IdentifyUrl(apiKey, call.args), form))]

\* a faulty variant of AfterImage: the first failure of an image request is
\* answered by asking for the same image again
AfterImageRetryOnce(apiKey, call, resp) ==
    LET got  == [call EXCEPT !.resps = Append(@, resp)]
        url  == call.args.image_urls[call.i + 1]
        form == call.form \o <<ImagePart(call.i, resp), OrganPart(call.args, call.i)>>
        next == call.i + 1
    IN  IF (resp.kind = "reject" \/ ~Ok(resp)) /\ Len(call.reqs) = call.i + 1
        THEN [got EXCEPT !.reqs = Append(@, ImageFetch(url))]
        ELSE IF resp.kind = "reject"
        THEN Finish(got, Throw(FetchFailed))
        ELSE IF ~Ok(resp)
        THEN Finish(got, Throw(Error(<<"Failed to fetch image at ", url, ": ", resp.statusText>>)))
        ELSE IF next < Len(call.args.image_urls)
        THEN [got EXCEPT !.form = form, !.i = next,
                         !.reqs = Append(@, ImageFetch(call.args.image_urls[next + 1]))]
        ELSE [got EXCEPT !.form = form, !.i = next, !.pc = "awaitPost",
                         !.reqs = Append(@, IdentifyPost(IdentifyUrl(apiKey, call.args), form))]

\* a faulty variant of AfterImage: the form is one object of the client, which
\* every call in flight appends to and posts
AfterImageSharedForm(apiKey, call, resp) ==
    LET got  == [call EXCEPT !.resps = Append(@, resp)]
        url  == call.args.image_urls[call.i + 1]
        form == Concat([d \in DOMAIN calls |-> calls[d].form])
                  \o <<ImagePart(call.i, resp), OrganPart(call.args, call.i)>>
        next == call.i + 1
    IN  IF resp.kind = "reject"
        THEN Finish(got, Throw(FetchFailed))
        ELSE IF ~Ok(resp)
        THEN Finish(got, Throw(Error(<<"Failed to fetch image at ", url, ": ", resp.statusText>>)))
        ELSE IF next < Len(call.args.image_urls)
        THEN [got EXCEPT !.form = form, !.i = next,
                         !.reqs = Append(@, ImageFetch(call.args.image_urls[next + 1]))]
        ELSE [got EXCEPT !.form = form, !.i = next, !.pc = "awaitPost",
                         !.reqs = Append(@, IdentifyPost(IdentifyUrl(apiKey, call.args), form))]

\* a faulty variant of AfterImage: the error names the first locator of the list
AfterImageNamesFirst(apiKey, call, resp) ==
    LET got  == [call EXCEPT !.resps = Append(@, resp)]
        url  == call.args.image_urls[1]
        form == call.form \o <<ImagePart(call.i, resp), OrganPart(call.args, call.i)>>
        next == call.i + 1
    IN  IF resp.kind = "reject"
        THEN Finish(got, Throw(FetchFailed))
        ELSE IF ~Ok(resp)
        THEN Finish(got, Throw(Error(<<"Failed to fetch image at ", url, ": ", resp.statusText>>)))
        ELSE IF next < Len(call.args.image_urls)
        THEN [got EXCEPT !.form = form, !.i = next,
                         !.reqs = Append(@, ImageFetch(call.args.image_urls[next + 1]))]
        ELSE [got EXCEPT !.form = form, !.i = next, !.pc = "awaitPost",
                         !.reqs = Append(@, IdentifyPost(IdentifyUrl(apiKey, call.args), form))]

\* a faulty variant of AfterImage: after a failed image the call waits for
\* something that never comes
AfterImageHangs(apiKey, call, resp) ==
    LET got  == [call EXCEPT !.resps = Append(@, resp)]
        form == call.form \o <<ImagePart(call.i, resp), OrganPart(call.args, call.i)>>
        next == call.i + 1
    IN  IF resp.kind = "reject" \/ ~Ok(resp)
        THEN [got EXCEPT !.pc = "hung"]
        ELSE IF next < Len(call.args.image_urls)
        THEN [got EXCEPT !.form = form, !.i = next,
                         !.reqs = Append(@, ImageFetch(call.args.image_urls[next + 1]))]
        ELSE [got EXCEPT !.form = form, !.i = next, !.pc = "awaitPost",
                         !.reqs = Append(@, IdentifyPost(IdentifyUrl(apiKey, call.args), form))]

\* identifyPlant from the answer to the image request of index i up to its next
\* await: the rest of the loop body, then the next image request or the POST.
\* The answer holds the whole body: fetch and arrayBuffer() are one step.
AfterImage(apiKey, call, resp) ==
    LET got  == [call EXCEPT !.resps = Append(@, resp)]
        url  == call.args.image_urls[call.i + 1]
        form == call.form \o <<ImagePart(call.i, resp), OrganPart(call.args, call.i)>>
        next == call.i + 1
    IN  IF resp.kind = "reject"
        THEN Finish(got, Throw(FetchFailed))
        ELSE IF ~Ok(resp)
        THEN Finish(got, Throw(Error(<<"Failed to fetch image at ", url, ": ", resp.statusText>>)))
        ELSE IF next < Len(call.args.image_urls)
        THEN [got EXCEPT !.form = form, !.i = next,
                         !.reqs = Append(@, ImageFetch(call.args.image_urls[next + 1]))]
        ELSE [got EXCEPT !.form = form, !.i = next, !.pc = "awaitPost",
                         !.reqs = Append(@, IdentifyPost(IdentifyUrl(apiKey, call.args), form))]

\* a faulty variant of AfterPost: the status is looked at before the body is parsed
AfterPostStatusFirst(call, resp) ==
    LET got == [call EXCEPT !.resps = Append(@, resp)]
    IN  IF resp.kind = "reject"
        THEN Finish(got, Throw(FetchFailed))
        ELSE IF ~Ok(resp)
        THEN Finish(got, Throw(Error(<<"PlantNet API error ", resp.status, ": ", resp.body>>)))
        ELSE IF JsonParse(resp.body) = <<>>
        THEN Finish(got, Throw(JsonSyntaxError))
        ELSE Finish(got, Return(JsonParse(resp.body)[1]))

\* a faulty variant of AfterPost: only the first candidate is returned
AfterPostTopOnly(call, resp) ==
    LET got  == [call EXCEPT !.resps = Append(@, resp)]
        data == JsonParse(resp.body)[1]
    IN  IF resp.kind = "reject"
        THEN Finish(got, Throw(FetchFailed))
        ELSE IF JsonParse(resp.body) = <<>>
        THEN Finish(got, Throw(JsonSyntaxError))
        ELSE IF ~Ok(resp)
        THEN Finish(got, Throw(Error(<<"PlantNet API error ", resp.status, ": ",
                                       JsonStringify(data)>>)))
        ELSE IF Has(data, "results") /\ data.results # <<>>
        THEN Finish(got, Return([data EXCEPT !.results = <<data.results[1]>>]))
        ELSE Finish(got, Return(data))

\* a faulty variant of AfterPost: a body that is no JSON is reported with the
\* status when the status is a failure
AfterPostStatusOnBadBody(call, resp) ==
    LET got  == [call EXCEPT !.resps = Append(@, resp)]
    IN  IF resp.kind = "reject"
        THEN Finish(got, Throw(FetchFailed))
        ELSE IF JsonParse(resp.body) = <<>> /\ Ok(resp)
        THEN Finish(got, Throw(JsonSyntaxError))
        ELSE IF JsonParse(resp.body) = <<>>
        THEN Finish(got, Throw(Error(<<"PlantNet API error ", resp.status, ": ", resp.statusText>>)))
        ELSE IF ~Ok(resp)
        THEN Finish(got, Throw(Error(<<"PlantNet API error ", resp.status, ": ",
                                       JsonStringify(JsonParse(resp.body)[1])>>)))
        ELSE Finish(got, Return(JsonParse(resp.body)[1]))

\* identifyPlant from the answer to the POST to its end
AfterPost(call, resp) ==
    LET got  == [call EXCEPT !.resps = Append(@, resp)]
    IN  IF resp.kind = "reject"
        THEN Finish(got, Throw(FetchFailed))
        ELSE IF JsonParse(resp.body) = <<>>
        THEN Finish(got, Throw(JsonSyntaxError))
        ELSE IF ~Ok(resp)
        THEN Finish(got, Throw(Error(<<"PlantNet API error ", resp.status, ": ",
                                       JsonStringify(JsonParse(resp.body)[1])>>)))
        ELSE Finish(got, Return(JsonParse(resp.body)[1]))

\* listProjects up to its await
StartList(apiKey, largs) ==
    [IdleCall EXCEPT !.op = "listProjects", !.args = largs, !.pc = "awaitList",
                     !.reqs = <<ProjectsGet(ProjectsUrl(apiKey, largs))>>]

\* a faulty variant of AfterList: the error of a failure carries no status
AfterListNoStatus(call, resp) ==
    LET got == [call EXCEPT !.resps = Append(@, resp)]
    IN  IF resp.kind = "reject"
        THEN Finish(got, Throw(FetchFailed))
        ELSE IF ~Ok(resp)
        THEN Finish(got, Throw(Error(<<"PlantNet API error">>)))
        ELSE IF JsonParse(resp.body) = <<>>
        THEN Finish(got, Throw(JsonSyntaxError))
        ELSE Finish(got, Return(JsonParse(resp.body)[1]))

\* listProjects from the answer to its request to its end
AfterList(call, resp) ==
    LET got == [call EXCEPT !.resps = Append(@, resp)]
    IN  IF resp.kind = "reject"
        THEN Finish(got, Throw(FetchFailed))
        ELSE IF ~Ok(resp)
        THEN Finish(got, Throw(Error(<<"PlantNet API error ", resp.status, ": ", resp.statusText>>)))
        ELSE IF JsonParse(resp.body) = <<>>
        THEN Finish(got, Throw(JsonSyntaxError))
        ELSE Finish(got, Return(JsonParse(resp.body)[1]))

-----------------------------------------------------------------------------
(* The server: schemas, result formatting, the factory and the tool handler *)

ORGAN_ENUM == {"leaf", "flower", "fruit", "bark", "auto", "habit", "other"}

MIN_NB_RESULTS == 1

MAX_NB_RESULTS == 25

\* the strings z.string().url() accepts, among those the model uses
WellFormedUrls == Urls

\* a faulty variant of IdentifyIssues: the organ tags are not checked
IdentifyIssuesAnyOrgan(targs) ==
    LET urlIssues ==
            IF ~Has(targs, "image_urls") THEN <<[path |-> "image_urls", code |-> "invalid_type"]>>
            ELSE (IF Len(targs.image_urls) < 1
                  THEN <<[path |-> "image_urls", code |-> "too_small"]>> ELSE <<>>)
              \o (IF Len(targs.image_urls) > MAX_IMAGES
                  THEN <<[path |-> "image_urls", code |-> "too_big"]>> ELSE <<>>)
              \o (IF \E k \in 1..Len(targs.image_urls) : targs.image_urls[k] \notin WellFormedUrls
                  THEN <<[path |-> "image_urls", code |-> "invalid_string"]>> ELSE <<>>)
        organIssues ==
            IF ~Has(targs, "organs") THEN <<[path |-> "organs", code |-> "invalid_type"]>>
            ELSE IF Len(targs.organs) < 1
            THEN <<[path |-> "organs", code |-> "too_small"]>> ELSE <<>>
        nbIssues ==
            IF ~Has(targs, "nb_results") THEN <<>>
            ELSE IF targs.nb_results < MIN_NB_RESULTS
            THEN <<[path |-> "nb_results", code |-> "too_small"]>>
            ELSE IF targs.nb_results > MAX_NB_RESULTS
            THEN <<[path |-> "nb_results", code |-> "too_big"]>>
            ELSE <<>>
    IN  urlIssues \o organIssues \o nbIssues

\* a faulty variant of IdentifyIssues: nb_results has no upper limit
IdentifyIssuesAnyCount(targs) ==
    LET urlIssues ==
            IF ~Has(targs, "image_urls") THEN <<[path |-> "image_urls", code |-> "invalid_type"]>>
            ELSE (IF Len(targs.image_urls) < 1
                  THEN <<[path |-> "image_urls", code |-> "too_small"]>> ELSE <<>>)
              \o (IF Len(targs.image_urls) > MAX_IMAGES
                  THEN <<[path |-> "image_urls", code |-> "too_big"]>> ELSE <<>>)
              \o (IF \E k \in 1..Len(targs.image_urls) : targs.image_urls[k] \notin WellFormedUrls
                  THEN <<[path |-> "image_urls", code |-> "invalid_string"]>> ELSE <<>>)
        organIssues ==
            IF ~Has(targs, "organs") THEN <<[path |-> "organs", code |-> "invalid_type"]>>
            ELSE (IF Len(targs.organs) < 1
                  THEN <<[path |-> "organs", code |-> "too_small"]>> ELSE <<>>)
              \o (IF \E k \in 1..Len(targs.organs) : targs.organs[k] \notin ORGAN_ENUM
                  THEN <<[path |-> "organs", code |-> "invalid_enum_value"]>> ELSE <<>>)
        nbIssues ==
            IF ~Has(targs, "nb_results") THEN <<>>
            ELSE IF targs.nb_results < MIN_NB_RESULTS
            THEN <<[path |-> "nb_results", code |-> "too_small"]>>
            ELSE <<>>
    IN  urlIssues \o organIssues \o nbIssues

\* the issues IdentifyPlantSchema finds in the arguments of a tool call
IdentifyIssues(targs) ==
    LET urlIssues ==
            IF ~Has(targs, "image_urls") THEN <<[path |-> "image_urls", code |-> "invalid_type"]>>
            ELSE (IF Len(targs.image_urls) < 1
                  THEN <<[path |-> "image_urls", code |-> "too_small"]>> ELSE <<>>)
              \o (IF Len(targs.image_urls) > MAX_IMAGES
                  THEN <<[path |-> "image_urls", code |-> "too_big"]>> ELSE <<>>)
              \o (IF \E k \in 1..Len(targs.image_urls) : targs.image_urls[k] \notin WellFormedUrls
                  THEN <<[path |-> "image_urls", code |-> "invalid_string"]>> ELSE <<>>)
        organIssues ==
            IF ~Has(targs, "organs") THEN <<[path |-> "organs", code |-> "invalid_type"]>>
            ELSE (IF Len(targs.organs) < 1
                  THEN <<[path |-> "organs", code |-> "too_small"]>> ELSE <<>>)
              \o (IF \E k \in 1..Len(targs.organs) : targs.organs[k] \notin ORGAN_ENUM
                  THEN <<[path |-> "organs", code |-> "invalid_enum_value"]>> ELSE <<>>)
        nbIssues ==
            IF ~Has(targs, "nb_results") THEN <<>>
            ELSE IF targs.nb_results < MIN_NB_RESULTS
            THEN <<[path |-> "nb_results", code |-> "too_small"]>>
            ELSE IF targs.nb_results > MAX_NB_RESULTS
            THEN <<[path |-> "nb_results", code |-> "too_big"]>>
            ELSE <<>>
    IN  urlIssues \o organIssues \o nbIssues

ZodError(issues) == [name |-> "ZodError", message |-> issues]

\* what IdentifyPlantSchema.parse gives when it finds no issue: the optional
\* fields take their defaults
IdentifyParsed(targs) ==
    [image_urls |-> targs.image_urls, organs |-> targs.organs,
     project    |-> Get(targs, "project", DEFAULT_PROJECT),
     lang       |-> Get(targs, "lang", DEFAULT_LANG),
     nb_results |-> Get(targs, "nb_results", DEFAULT_NB_RESULTS)]

\* what ListProjectsSchema.parse gives: the language, with its default
ListParsed(targs) == <<Get(targs, "lang", DEFAULT_LANG)>>

\* array.join(sep), as the sequence of the pieces of the text
Join(list, sep) ==
    [k \in 1..(IF list = <<>> THEN 0 ELSE 2 * Len(list) - 1) |->
        IF k % 2 = 1 THEN list[(k + 1) \div 2] ELSE sep]

\* (score * 100).toFixed(1), for a score given in ten-thousandths
Confidence(score) ==
    LET tenths == (score + 5) \div 10
    IN  NumToString(tenths \div 10) \o <<".", Digits[(tenths % 10) + 1]>>

\* a faulty variant of CandidateLines: every common name is shown
CandidateLinesAllNames(result, i) ==
    LET joined == Join(result.species.commonNames, ", ")
        commonNames == IF joined = <<>> \/ joined = <<"">> THEN <<"none known">> ELSE joined
        author == IF ~Has(result.species, "scientificNameAuthorship")
                     \/ result.species.scientificNameAuthorship = ""
                  THEN "unknown" ELSE result.species.scientificNameAuthorship
    IN  << <<"**", i + 1, ". ", result.species.scientificNameWithoutAuthor, "** - ",
             Confidence(result.score), "% confidence">>,
           <<"   - Author: ", author>>,
           <<"   - Family: ", result.species.family.scientificNameWithoutAuthor>>,
           <<"   - Genus: ", result.species.genus.scientificNameWithoutAuthor>>,
           <<"   - Common names: ", commonNames>> >>
        \o (IF Has(result, "gbif") THEN << <<"   - GBIF ID: ", result.gbif.id>> >> ELSE <<>>)
        \o (IF Has(result, "powo") THEN << <<"   - POWO ID: ", result.powo.id>> >> ELSE <<>>)
        \o << <<"">> >>

\* the lines of the block of the candidate of 0-based index i (the dash of
\* the first line is written - here)
CandidateLines(result, i) ==
    LET names  == SubSeq(result.species.commonNames, 1,
                         IF Len(result.species.commonNames) < 3
                         THEN Len(result.species.commonNames) ELSE 3)
        joined == Join(names, ", ")
        commonNames == IF joined = <<>> \/ joined = <<"">> THEN <<"none known">> ELSE joined
        author == IF ~Has(result.species, "scientificNameAuthorship")
                     \/ result.species.scientificNameAuthorship = ""
                  THEN "unknown" ELSE result.species.scientificNameAuthorship
    IN  << <<"**", i + 1, ". ", result.species.scientificNameWithoutAuthor, "** - ",
             Confidence(result.score), "% confidence">>,
           <<"   - Author: ", author>>,
           <<"   - Family: ", result.species.family.scientificNameWithoutAuthor>>,
           <<"   - Genus: ", result.species.genus.scientificNameWithoutAuthor>>,
           <<"   - Common names: ", commonNames>> >>
        \o (IF Has(result, "gbif") THEN << <<"   - GBIF ID: ", result.gbif.id>> >> ELSE <<>>)
        \o (IF Has(result, "powo") THEN << <<"   - POWO ID: ", result.powo.id>> >> ELSE <<>>)
        \o << <<"">> >>

\* the candidates by decreasing score, equal scores in list order
RECURSIVE ByScore(_)
ByScore(results) ==
    IF results = <<>> THEN <<>>
    ELSE LET best == CHOOSE k \in 1..Len(results) :
                        \A j \in 1..Len(results) :
                            /\ results[j].score <= results[k].score
                            /\ (results[j].score = results[k].score => k <= j)
         IN  <<results[best]>> \o
             ByScore(SubSeq(results, 1, best - 1) \o SubSeq(results, best + 1, Len(results)))

\* a faulty variant of FormatIdentifyResult: the candidates by decreasing score
FormatIdentifyResultSorted(data) ==
    << <<"## Plant Identification Results">>,
       <<"">>,
       <<"**Best match:** ", data.bestMatch>>,
       <<"**Remaining daily quota:** ", data.remainingIdentificationRequests, " requests">>,
       <<"**AI engine version:** ", data.version>>,
       <<"">>,
       <<"### Top ", Len(data.results), " Species Matches">>,
       <<"">> >>
    \o Concat([i \in 1..Len(data.results) |-> CandidateLines(ByScore(data.results)[i], i - 1)])
    \o << <<"---">>,
          <<"*Tip: For better accuracy, use clear photos of a single plant part and specify the correct organ.*">> >>

\* a faulty variant of FormatIdentifyResult: the header gives the number of
\* candidates asked for by default, and the quota comes before the best match
FormatIdentifyResultFixedCount(data) ==
    << <<"## Plant Identification Results">>,
       <<"">>,
       <<"**Remaining daily quota:** ", data.remainingIdentificationRequests, " requests">>,
       <<"**Best match:** ", data.bestMatch>>,
       <<"**AI engine version:** ", data.version>>,
       <<"">>,
       <<"### Top ", DEFAULT_NB_RESULTS, " Species Matches">>,
       <<"">> >>
    \o Concat([i \in 1..Len(data.results) |-> CandidateLines(data.results[i], i - 1)])
    \o << <<"---">>,
          <<"*Tip: For better accuracy, use clear photos of a single plant part and specify the correct organ.*">> >>

\* formatIdentifyResult(data): the lines of the text
FormatIdentifyResult(data) ==
    << <<"## Plant Identification Results">>,
       <<"">>,
       <<"**Best match:** ", data.bestMatch>>,
       <<"**Remaining daily quota:** ", data.remainingIdentificationRequests, " requests">>,
       <<"**AI engine version:** ", data.version>>,
       <<"">>,
       <<"### Top ", Len(data.results), " Species Matches">>,
       <<"">> >>
    \o Concat([i \in 1..Len(data.results) |-> CandidateLines(data.results[i], i - 1)])
    \o << <<"---">>,
          <<"*Tip: For better accuracy, use clear photos of a single plant part and specify the correct organ.*">> >>

\* the lines of the list_projects text (a backquote is written ' here)
FormatProjects(projects) ==
    << <<"## Available Pl@ntNet Flora Projects">>,
       <<"">>,
       <<"Use the **Project ID** as the 'project' argument in 'identify_plant' for regional accuracy.">>,
       <<"">>,
       <<"| Project ID | Name |">>,
       <<"|-----------|------|">> >>
    \o [k \in 1..Len(projects) |->
          <<"| '", Get(projects[k].info, "id", projects[k].key), "' | ",
            Get(projects[k].info, "name", projects[k].key), " |">>]

\* the static text of check_quota
QuotaText ==
    << <<"## Pl@ntNet API Quota Information">>,
       <<"">>,
       <<"**Free tier limit:** 500 identifications per day per API key.">>,
       <<"">>,
       <<"The exact number of remaining requests for today is returned in every 'identify_plant' response as the 'remainingIdentificationRequests' field.">>,
       <<"">>,
       <<"To check your current quota, make any 'identify_plant' request and note the value shown in:">>,
       <<"  **Remaining daily quota:** N requests">>,
       <<"">>,
       <<"If you exceed the daily limit, the API returns a 429 Too Many Requests error.">>,
       <<"">>,
       <<"To increase your quota, visit: https://my.plantnet.org/account/settings">> >>

TextContent(lines) == [content |-> <<[type |-> "text", text |-> lines]>>]

McpError(code, msg) == [name |-> "McpError", code |-> code, message |-> msg]

\* a faulty variant of Caught: every error is wrapped, an McpError too
CaughtWrapsAll(err) ==
    McpError("InternalError", <<"Tool execution failed: ", err.message>>)

\* the catch clause of the handler: an McpError goes through, any other error
\* becomes an InternalError that carries its message
Caught(err) ==
    IF err.name = "McpError" THEN err
    ELSE McpError("InternalError", <<"Tool execution failed: ", err.message>>)

\* what reading data.results.length throws when the body has no results
NoResultsError ==
    [name |-> "TypeError", message |-> <<"Cannot read properties of undefined (reading 'length')">>]

\* a faulty variant of Handled: an error of the client is given as the text
\* of a result
HandledErrorAsText(call) ==
    IF call.tool = "none" \/ call.pc # "done" THEN call
    ELSE IF call.outcome.kind = "throw"
    THEN [call EXCEPT !.toolOutcome = Return(TextContent(<< <<"Error: ", call.outcome.error.message>> >>))]
    ELSE IF call.tool = "list_projects"
    THEN [call EXCEPT !.toolOutcome = Return(TextContent(FormatProjects(call.outcome.value)))]
    ELSE IF ~Has(call.outcome.value, "results")
    THEN [call EXCEPT !.toolOutcome = Throw(Caught(NoResultsError))]
    ELSE [call EXCEPT !.toolOutcome = Return(TextContent(FormatIdentifyResult(call.outcome.value)))]

\* the handler after the client call it awaits: the text content of the value,
\* or the error caught
Handled(call) ==
    IF call.tool = "none" \/ call.pc # "done" THEN call
    ELSE IF call.outcome.kind = "throw"
    THEN [call EXCEPT !.toolOutcome = Throw(Caught(call.outcome.error))]
    ELSE IF call.tool = "list_projects"
    THEN [call EXCEPT !.toolOutcome = Return(TextContent(FormatProjects(call.outcome.value)))]
    ELSE IF ~Has(call.outcome.value, "results")
    THEN [call EXCEPT !.toolOutcome = Throw(Caught(NoResultsError))]
    ELSE [call EXCEPT !.toolOutcome = Return(TextContent(FormatIdentifyResult(call.outcome.value)))]

\* a tool call that ends without a client call
HandledAtOnce(name, targs, o) ==
    [IdleCall EXCEPT !.pc = "done", !.tool = name, !.toolArgs = targs, !.toolOutcome = o]

\* a faulty variant of HandleTool: check_quota asks the project directory first
HandleToolQuotaProbe(apiKey, name, targs) ==
    IF name = "identify_plant"
    THEN IF IdentifyIssues(targs) # <<>>
         THEN HandledAtOnce(name, targs, Throw(Caught(ZodError(IdentifyIssues(targs)))))
         ELSE Handled([StartIdentify(IdentifyParsed(targs)) EXCEPT !.tool = name, !.toolArgs = targs])
    ELSE IF name \in {"list_projects", "check_quota"}
    THEN Handled([StartList(apiKey, ListParsed(targs)) EXCEPT !.tool = name, !.toolArgs = targs])
    ELSE HandledAtOnce(name, targs, Throw(Caught(McpError("MethodNotFound", <<"Unknown tool: ", name>>))))

\* a faulty variant of HandleTool: organs left out are taken as 'auto' for
\* every image
HandleToolOrgansDefault(apiKey, name, targs) ==
    LET filled == IF Has(targs, "image_urls") /\ ~Has(targs, "organs")
                  THEN WithField(targs, "organs", [k \in 1..Len(targs.image_urls) |-> "auto"])
                  ELSE targs
    IN  IF name = "identify_plant"
        THEN IF IdentifyIssues(filled) # <<>>
             THEN HandledAtOnce(name, targs, Throw(Caught(ZodError(IdentifyIssues(filled)))))
             ELSE Handled([StartIdentify(IdentifyParsed(filled)) EXCEPT !.tool = name, !.toolArgs = targs])
        ELSE IF name = "list_projects"
        THEN Handled([StartList(apiKey, ListParsed(targs)) EXCEPT !.tool = name, !.toolArgs = targs])
        ELSE IF name = "check_quota"
        THEN HandledAtOnce(name, targs, Return(TextContent(QuotaText)))
        ELSE HandledAtOnce(name, targs, Throw(Caught(McpError("MethodNotFound", <<"Unknown tool: ", name>>))))

\* the CallToolRequestSchema handler up to its first await
HandleTool(apiKey, name, targs) ==
    IF name = "identify_plant"
    THEN IF IdentifyIssues(targs) # <<>>
         THEN HandledAtOnce(name, targs, Throw(Caught(ZodError(IdentifyIssues(targs)))))
         ELSE Handled([StartIdentify(IdentifyParsed(targs)) EXCEPT !.tool = name, !.toolArgs = targs])
    ELSE IF name = "list_projects"
    THEN Handled([StartList(apiKey, ListParsed(targs)) EXCEPT !.tool = name, !.toolArgs = targs])
    ELSE IF name = "check_quota"
    THEN HandledAtOnce(name, targs, Return(TextContent(QuotaText)))
    ELSE HandledAtOnce(name, targs, Throw(Caught(McpError("MethodNotFound", <<"Unknown tool: ", name>>))))

\* a variable of process.env: <<>> when unset, <<value>> when set
EnvValue(v) == IF v = <<>> THEN <<>> ELSE v[1]

\* the credential createPlantNetServer reads from the environment
EnvApiKey(e) == EnvValue(e.PLANTNET_API_KEY)

\* a faulty variant of CreateServer: no check of what the environment gave
CreateServerUnchecked(e) ==
    [server |-> [status |-> "created"],
     client |-> [apiKey |-> EnvApiKey(e)],
     ctor   |-> [called |-> TRUE, apiKey |-> EnvApiKey(e), outcome |-> Return(<<>>)]]

\* createPlantNetServer(): the server and its client, or the error thrown
CreateServer(e) ==
    IF EnvApiKey(e) = <<>>
    THEN [server |-> [status |-> "failed",
                      error |-> Error(<<"PLANTNET_API_KEY environment variable is required. ",
                                        "Get your free API key at https://my.plantnet.org/">>)],
          client |-> NoClient,
          ctor   |-> [called |-> FALSE]]
    ELSE [server |-> IF Construct(EnvApiKey(e)).client = NoClient
                     THEN [status |-> "failed", error |-> Construct(EnvApiKey(e)).outcome.error]
                     ELSE [status |-> "created"],
          client |-> Construct(EnvApiKey(e)).client,
          ctor   |-> [called |-> TRUE, apiKey |-> EnvApiKey(e),
                      outcome |-> Construct(EnvApiKey(e)).outcome]]

-----------------------------------------------------------------------------
(* The client used directly, as its unit tests use it *)

Init ==
    /\ env = [PLANTNET_API_KEY |-> <<>>, PLANTNET_API |-> <<>>]
    /\ server = [status |-> "none"]
    /\ client = NoClient
    /\ ctor = [called |-> FALSE]
    /\ calls = [c \in CallIds |-> IdleCall]

Free(c) == calls[c].pc = "idle"

NewPlantNetClient(apiKey) ==
    /\ client = NoClient
    /\ ctor' = [called |-> TRUE, apiKey |-> apiKey, outcome |-> Construct(apiKey).outcome]
    /\ client' = Construct(apiKey).client
    /\ UNCHANGED <<env, server, calls>>

IdentifyPlant(c, args) ==
    /\ client # NoClient
    /\ Free(c)
    /\ calls' = [calls EXCEPT ![c] = StartIdentify(args)]
    /\ UNCHANGED <<env, server, client, ctor>>

ImageResponse(c, resp) ==
    /\ calls[c].pc = "awaitImage"
    /\ calls' = [calls EXCEPT ![c] = Handled(AfterImage(client.apiKey, calls[c], resp))]
    /\ UNCHANGED <<env, server, client, ctor>>

PostResponse(c, resp) ==
    /\ calls[c].pc = "awaitPost"
    /\ calls' = [calls EXCEPT ![c] = Handled(AfterPost(calls[c], resp))]
    /\ UNCHANGED <<env, server, client, ctor>>

ListProjects(c, largs) ==
    /\ client # NoClient
    /\ Free(c)
    /\ calls' = [calls EXCEPT ![c] = StartList(client.apiKey, largs)]
    /\ UNCHANGED <<env, server, client, ctor>>

ListResponse(c, resp) ==
    /\ calls[c].pc = "awaitList"
    /\ calls' = [calls EXCEPT ![c] = Handled(AfterList(calls[c], resp))]
    /\ UNCHANGED <<env, server, client, ctor>>

\* the caller has taken the outcome of call c; the call id is free again
Settle(c) ==
    /\ calls[c].pc = "done"
    /\ calls' = [calls EXCEPT ![c] = IdleCall]
    /\ UNCHANGED <<env, server, client, ctor>>

Next ==
    \/ \E k \in Keys : NewPlantNetClient(k)
    \/ \E c \in CallIds : Settle(c)
    \/ \E c \in CallIds : Free(c) /\ client # NoClient /\ \E a \in IdentifyArgs : IdentifyPlant(c, a)
    \/ \E c \in CallIds, r \in ImageResponses : ImageResponse(c, r)
    \/ \E c \in CallIds, r \in PostResponses : PostResponse(c, r)
    \/ \E c \in CallIds, l \in ListArgs : ListProjects(c, l)
    \/ \E c \in CallIds, r \in ListResponses : ListResponse(c, r)

Spec == Init /\ [][Next]_vars

-----------------------------------------------------------------------------
(* The server: started from the environment, used through its tools *)

\* process.env at start: each variable unset, set to the empty string, or set
\* to a credential
Envs ==
    [PLANTNET_API_KEY : {<<>>, << <<>> >>, << <<"k", "1">> >>},
     PLANTNET_API     : {<<>>, << <<>> >>, << <<"k", "2">> >>}]

ToolNames == {"identify_plant", "list_projects", "check_quota", "remove_plant"}

ToolUrlLists == ListsOf({<<"http://a/1">>, <<"http://a/1", "http://b/2">>, <<"http://a/1", "not a url">>})

ToolOrganLists == ListsOf({<<"leaf">>, <<"leaf", "flower">>, <<"leaf", "root">>})

ToolShapes ==
    [image_urls : ToolUrlLists, organs : ToolOrganLists]
    \cup [image_urls : ToolUrlLists] \cup [organs : ToolOrganLists]

ToolNbResults == {0, 1, 25, 26}

\* the arguments of an identify_plant tool call: every shape with no optional
\* field, and the shapes of extreme lists with every choice of the optional fields
IdentifyToolArgs ==
    ToolShapes \cup
    WithOptional(
        WithOptional(
            WithOptional({s \in ToolShapes :
                            /\ Has(s, "image_urls") /\ Extreme(s.image_urls)
                            /\ Has(s, "organs") /\ Extreme(s.organs)},
                         "project", {<<"w", "e">>}),
            "lang", {<<"f", "r">>}),
        "nb_results", ToolNbResults)

ToolArgs(name) ==
    IF name = "identify_plant" THEN IdentifyToolArgs
    ELSE IF name = "list_projects" THEN {<<>>} \cup {WithField(<<>>, "lang", l) : l \in Langs}
    ELSE {<<>>}

InitServer ==
    /\ env \in Envs
    /\ server = [status |-> "none"]
    /\ client = NoClient
    /\ ctor = [called |-> FALSE]
    /\ calls = [c \in CallIds |-> IdleCall]

CreatePlantNetServer ==
    /\ server.status = "none"
    /\ server' = CreateServer(env).server
    /\ client' = CreateServer(env).client
    /\ ctor' = CreateServer(env).ctor
    /\ UNCHANGED <<env, calls>>

ToolCall(c, name, targs) ==
    /\ server.status = "created"
    /\ Free(c)
    /\ calls' = [calls EXCEPT ![c] = HandleTool(client.apiKey, name, targs)]
    /\ UNCHANGED <<env, server, client, ctor>>

NextServer ==
    \/ CreatePlantNetServer
    \/ \E c \in CallIds : Settle(c)
    \/ \E c \in CallIds : Free(c) /\ server.status = "created"
                          /\ \E n \in ToolNames : \E a \in ToolArgs(n) : ToolCall(c, n, a)
    \/ \E c \in CallIds, r \in ImageResponses : ImageResponse(c, r)
    \/ \E c \in CallIds, r \in PostResponses : PostResponse(c, r)
    \/ \E c \in CallIds, r \in ListResponses : ListResponse(c, r)

SpecServer == InitServer /\ [][NextServer]_vars

-----------------------------------------------------------------------------
(* The server answering identify_plant calls: every list of candidates the *)
(* identification service may return goes through formatIdentifyResult     *)

\* the longest list of candidates
MaxResults == 3

Candidates == {Oak, Rose, Mint, Fern, Moss, Reed}

\* the bodies of the successful answers of the identification service
FormatBodies ==
    [bestMatch : {"Quercus robur L.", "Rosa canina"},
     results : SeqsUpTo(Candidates, MaxResults),
     remainingIdentificationRequests : {0, 450},
     version : {"2.1"}]

FormatResponses == {HttpResponse(200, <<>>, JsonText(b)) : b \in FormatBodies}

FormatToolArgs == {[image_urls |-> <<"http://a/1">>, organs |-> <<"leaf">>]}

InitFormat ==
    /\ InitServer
    /\ env.PLANTNET_API_KEY = << <<"k", "1">> >>

NextFormat ==
    \/ CreatePlantNetServer
    \/ \E c \in CallIds : Settle(c)
    \/ \E c \in CallIds : Free(c) /\ server.status = "created"
                          /\ \E a \in FormatToolArgs : ToolCall(c, "identify_plant", a)
    \/ \E c \in CallIds, r \in ImageResponses : ImageResponse(c, r)
    \/ \E c \in CallIds, r \in FormatResponses : PostResponse(c, r)

SpecFormat == InitFormat /\ [][NextFormat]_vars

-----------------------------------------------------------------------------
(* One client with two identifyPlant calls in flight at a time: the calls  *)
(* are suspended at their awaits and resumed in any order                  *)

ConcCallIds == {1, 2}

\* the requests of the concurrent calls: one image, two images with every
\* optional field, and a request the checks refuse
ConcArgs ==
    {[image_urls |-> <<"http://a/1">>, organs |-> <<"leaf">>],
     [image_urls |-> <<"http://b/2", "http://a/1">>, organs |-> <<"flower", "leaf">>,
      project |-> <<"a">>, lang |-> <<"f", "r">>, nb_results |-> 3],
     [image_urls |-> <<"http://a/1">>, organs |-> <<>>]}

InitConc ==
    /\ env = [PLANTNET_API_KEY |-> <<>>, PLANTNET_API |-> <<>>]
    /\ server = [status |-> "none"]
    /\ client = NoClient
    /\ ctor = [called |-> FALSE]
    /\ calls = [c \in ConcCallIds |-> IdleCall]

NextConc ==
    \/ NewPlantNetClient(<<"k", "1">>)
    \/ \E c \in ConcCallIds : Settle(c)
    \/ \E c \in ConcCallIds : Free(c) /\ client # NoClient /\ \E a \in ConcArgs : IdentifyPlant(c, a)
    \/ \E c \in ConcCallIds, r \in ImageResponses : ImageResponse(c, r)
    \/ \E c \in ConcCallIds, r \in PostResponses : PostResponse(c, r)

SpecConc == InitConc /\ [][NextConc]_vars

-----------------------------------------------------------------------------

(* The two calls again, on a network that answers: every request that is   *)
(* awaited is answered in the end, by a response or by a rejection         *)

\* the request a call awaits is answered in the end
Answered(c) ==
    /\ WF_vars(\E r \in ImageResponses : ImageResponse(c, r))
    /\ WF_vars(\E r \in PostResponses : PostResponse(c, r))

SpecLive == InitConc /\ [][NextConc]_vars /\ \A c \in ConcCallIds : Answered(c)

-----------------------------------------------------------------------------

(* What the properties below read off a call *)

IdentifyCalls == {c \in DOMAIN calls : calls[c].op = "identifyPlant"}

ListCalls == {c \in DOMAIN calls : calls[c].op = "listProjects"}

\* the identification POSTs a call has issued
Posts(call) == SelectSeq(call.reqs, LAMBDA r : r.method = "POST")

\* the number of images of the request of an identifyPlant call
NumImages(call) == Len(call.args.image_urls)

\* the indices of the answers a call got to its image requests
ImageAnswers(call) == {k \in 1..Len(call.resps) : call.reqs[k].method = "GET"}

\* the indices of the answers a call got to its POST
PostAnswers(call) == {k \in 1..Len(call.resps) : call.reqs[k].method = "POST"}

\* answer k is a response with a non-success status
Failed(call, k) == call.resps[k].kind = "response" /\ ~Ok(call.resps[k])

\* answer k is a response with a success status
Succeeded(call, k) == call.resps[k].kind = "response" /\ Ok(call.resps[k])

Parseable(resp) == resp.body.text = "json"

\* the character a percent code stands for, as the receiving server decodes it
PercentChar(a, b) ==
    CASE <<a, b>> = <<"2", "F">> -> "/"
      [] <<a, b>> = <<"3", "F">> -> "?"
      [] <<a, b>> = <<"2", "3">> -> "#"
      [] <<a, b>> = <<"2", "5">> -> "%"
      [] <<a, b>> = <<"2", "6">> -> "&"
      [] <<a, b>> = <<"3", "D">> -> "="
      [] <<a, b>> = <<"2", "0">> -> " "
      [] OTHER -> "?"

RECURSIVE PercentDecode(_)
PercentDecode(str) ==
    IF str = <<>> THEN <<>>
    ELSE IF Head(str) = "%" /\ Len(str) >= 3
    THEN <<PercentChar(str[2], str[3])>> \o PercentDecode(SubSeq(str, 4, Len(str)))
    ELSE <<Head(str)>> \o PercentDecode(Tail(str))

\* the number a sequence of digits is the decimal numeral of
DigitValue(d) == CHOOSE v \in 0..9 : Digits[v + 1] = d

RECURSIVE ParseNat(_)
ParseNat(str) ==
    IF str = <<>> THEN 0
    ELSE 10 * ParseNat(SubSeq(str, 1, Len(str) - 1)) + DigitValue(str[Len(str)])

\* an identifyPlant call run alone on the request args and given the answers
\* resps, one after the other
RECURSIVE Replay(_, _, _)
Replay(apiKey, args, resps) ==
    IF resps = <<>> THEN StartIdentify(args)
    ELSE LET before == Replay(apiKey, args, SubSeq(resps, 1, Len(resps) - 1))
         IN  IF before.pc = "awaitImage"
             THEN AfterImage(apiKey, before, resps[Len(resps)])
             ELSE AfterPost(before, resps[Len(resps)])

SEG_V2 == <<"v", "2">>

SEG_IDENTIFY == <<"i", "d", "e", "n", "t", "i", "f", "y">>

SEG_PROJECTS == <<"p", "r", "o", "j", "e", "c", "t", "s">>

-----------------------------------------------------------------------------
(* C1: an identifyPlant call that got a non-success status for one of its  *)
(* image requests has failed with the 'Failed to fetch image' error and    *)
(* has issued no identification POST.                                      *)
C1_FailedImageNoPost ==
    \A c \in IdentifyCalls :
        (\E k \in ImageAnswers(calls[c]) : Failed(calls[c], k)) =>
            /\ calls[c].pc = "done"
            /\ calls[c].outcome.kind = "throw"
            /\ calls[c].outcome.error.message[1] = "Failed to fetch image at "
            /\ Posts(calls[c]) = <<>>

\* a call whose second image was answered 404 after its first one was fetched
C1_Witness ==
    \E c \in IdentifyCalls :
        /\ Len(calls[c].resps) = 2
        /\ Succeeded(calls[c], 1)
        /\ Failed(calls[c], 2)
        /\ calls[c].pc = "done"

(* C2: an identifyPlant call with 0 image locators, with more than 5, or   *)
(* with a locator count other than the organ count has failed with a       *)
(* validation error, whatever its project, lang and nb_results are, and    *)
(* has issued no request at all.                                           *)
C2_InvalidShapeNoNetwork ==
    \A c \in IdentifyCalls :
        LET a == calls[c].args
        IN  (Len(a.image_urls) = 0 \/ Len(a.image_urls) > 5 \/ Len(a.image_urls) # Len(a.organs)) =>
                /\ calls[c].pc = "done"
                /\ calls[c].outcome.kind = "throw"
                /\ calls[c].outcome.error.message \in
                     {<<"At least one image URL is required">>,
                      <<"Number of image_urls must match number of organs">>,
                      <<"Maximum 5 images per request">>}
                /\ calls[c].reqs = <<>>
                /\ calls[c].resps = <<>>

\* a call with 6 images and 6 organs that names a project, a language and a count
C2_Witness ==
    \E c \in IdentifyCalls :
        /\ Len(calls[c].args.image_urls) = 6
        /\ Len(calls[c].args.organs) = 6
        /\ Has(calls[c].args, "project") /\ Has(calls[c].args, "lang")
        /\ Has(calls[c].args, "nb_results")
        /\ calls[c].pc = "done"

(* C3: an identifyPlant call whose image requests were all answered with a *)
(* success status and whose POST was answered with a success status and a  *)
(* JSON body has returned exactly the value of that body; and a call       *)
(* returns nothing else.                                                   *)
C3_PassThrough ==
    \A c \in IdentifyCalls :
        LET call == calls[c]
            n    == NumImages(call)
        IN  /\ (/\ call.pc = "done"
                /\ Len(call.resps) = n + 1
                /\ \A k \in 1..(n + 1) : Succeeded(call, k)
                /\ Parseable(call.resps[n + 1]))
               => (/\ call.outcome.kind = "return"
                   /\ call.outcome.value = call.resps[n + 1].body.value)
            /\ call.outcome.kind = "return"
               => (/\ Len(call.resps) = n + 1
                   /\ Succeeded(call, n + 1)
                   /\ Parseable(call.resps[n + 1])
                   /\ call.outcome.value = call.resps[n + 1].body.value)

\* a call that returned two candidates the upstream had not ordered by score
C3_Witness ==
    \E c \in IdentifyCalls :
        /\ calls[c].outcome.kind = "return"
        /\ Has(calls[c].outcome.value, "results")
        /\ Len(calls[c].outcome.value.results) = 2
        /\ calls[c].outcome.value.results[1].score < calls[c].outcome.value.results[2].score
        /\ NumImages(calls[c]) = 2

(* C4, as stated: an identifyPlant call whose POST was answered with a     *)
(* non-2xx status has failed with an error that carries that status code   *)
(* and the stringified response body.                                      *)
C4_AsStated ==
    \A c \in IdentifyCalls :
        \A k \in PostAnswers(calls[c]) :
            Failed(calls[c], k) =>
                /\ calls[c].outcome.kind = "throw"
                /\ calls[c].outcome.error.message[1] = "PlantNet API error "
                /\ calls[c].outcome.error.message[2] = calls[c].resps[k].status

(* C4, amended: an identifyPlant call whose POST was answered with a       *)
(* non-2xx status has failed and returned nothing: with the error that     *)
(* carries the status code and the stringified body when the body is JSON, *)
(* and with the parse failure, which carries no status code, when it is    *)
(* not.                                                                    *)
C4_UpstreamError ==
    \A c \in IdentifyCalls :
        \A k \in PostAnswers(calls[c]) :
            Failed(calls[c], k) =>
                /\ calls[c].pc = "done"
                /\ calls[c].outcome.kind = "throw"
                /\ Parseable(calls[c].resps[k]) =>
                     calls[c].outcome.error =
                        Error(<<"PlantNet API error ", calls[c].resps[k].status, ": ",
                                JsonText(calls[c].resps[k].body.value)>>)
                /\ ~Parseable(calls[c].resps[k]) =>
                     calls[c].outcome.error.name = "SyntaxError"

\* a call whose POST was answered 401 with a body that is no JSON text
C4_Witness ==
    \E c \in IdentifyCalls :
        \E k \in PostAnswers(calls[c]) :
            /\ Failed(calls[c], k)
            /\ ~Parseable(calls[c].resps[k])
            /\ calls[c].pc = "done"

(* C5: the multipart body of every identification POST of a call with n    *)
(* images holds exactly n images parts and n organs parts; the i-th images *)
(* part carries the bytes answered to the request for image_urls[i], the   *)
(* i-th organs part carries organs[i], and each images part is directly    *)
(* followed by its organs part.                                            *)
C5_MultipartPairs ==
    \A c \in IdentifyCalls :
        \A p \in 1..Len(calls[c].reqs) :
            calls[c].reqs[p].method = "POST" =>
                LET call   == calls[c]
                    n      == NumImages(call)
                    body   == call.reqs[p].body
                    images == SelectSeq(body, LAMBDA part : part.name = "images")
                    organs == SelectSeq(body, LAMBDA part : part.name = "organs")
                IN  /\ Len(body) = 2 * n
                    /\ Len(images) = n
                    /\ Len(organs) = n
                    /\ \A i \in 1..n :
                          /\ call.reqs[i] = [method |-> "GET", url |-> call.args.image_urls[i]]
                          /\ images[i].data = call.resps[i].body
                          /\ organs[i].value = call.args.organs[i]
                          /\ body[2 * i - 1] = images[i]
                          /\ body[2 * i] = organs[i]

\* a POST for three images whose organs and whose bytes are not all the same
C5_Witness ==
    \E c \in IdentifyCalls :
        /\ calls[c].pc = "awaitPost"
        /\ NumImages(calls[c]) = 3
        /\ calls[c].args.organs[1] # calls[c].args.organs[2]
        /\ calls[c].args.image_urls[1] # calls[c].args.image_urls[2]
        /\ calls[c].resps[1].body # calls[c].resps[2].body

(* C6: a construction with the empty credential has thrown                 *)
(* 'PLANTNET_API_KEY is required' and left no client, so that no call was  *)
(* started; a construction with a non-empty credential has given a client  *)
(* that holds this credential.                                             *)
C6_Constructor ==
    /\ ctor.called =>
         /\ ctor.apiKey = <<>> =>
              /\ ctor.outcome = Throw(Error(<<"PLANTNET_API_KEY is required">>))
              /\ client = NoClient
         /\ ctor.apiKey # <<>> =>
              /\ ctor.outcome.kind = "return"
              /\ client = [apiKey |-> ctor.apiKey]
    /\ client = NoClient => \A c \in CallIds : calls[c] = IdleCall
    /\ client # NoClient => client.apiKey # <<>>

\* the constructor was called with the empty credential
C6_Witness == ctor.called /\ ctor.apiKey = <<>> /\ ctor.outcome.kind = "throw"

(* C7: the identification POST of a call that gave only image locators and *)
(* organs goes to the path /v2/identify/all with lang=en and nb-results=5. *)
C7_Defaults ==
    \A c \in IdentifyCalls :
        \A p \in 1..Len(calls[c].reqs) :
            (/\ calls[c].reqs[p].method = "POST"
             /\ DOMAIN calls[c].args = {"image_urls", "organs"}) =>
                LET url == calls[c].reqs[p].url
                IN  /\ url.path = <<SEG_V2, SEG_IDENTIFY, <<"a", "l", "l">> >>
                    /\ SearchParamsGet(url, P_LANG) = << <<"e", "n">> >>
                    /\ SearchParamsGet(url, P_NB_RESULTS) = << <<"5">> >>

\* a POST of a call that gave only image locators and organs
C7_Witness ==
    \E c \in IdentifyCalls :
        /\ DOMAIN calls[c].args = {"image_urls", "organs"}
        /\ Posts(calls[c]) # <<>>

(* C8: every identification POST has the path /v2/identify/{project} with  *)
(* the caller's project (the default when none is given) and the query     *)
(* parameters api-key = the credential given at construction, lang = the   *)
(* caller's lang, nb-results = the caller's nb_results and                 *)
(* include-related-images = false.                                         *)
C8_EndpointAsStated ==
    \A c \in IdentifyCalls :
        \A p \in 1..Len(calls[c].reqs) :
            calls[c].reqs[p].method = "POST" =>
                LET url == calls[c].reqs[p].url
                    a   == calls[c].args
                IN  /\ url.host = BASE_URL
                    /\ Len(url.path) = 3
                    /\ url.path[1] = SEG_V2
                    /\ url.path[2] = SEG_IDENTIFY
                    /\ PercentDecode(url.path[3]) =
                         (IF Has(a, "project") THEN a.project ELSE <<"a", "l", "l">>)
                    /\ SearchParamsGet(url, P_API_KEY) = <<ctor.apiKey>>
                    /\ SearchParamsGet(url, P_LANG) =
                         <<IF Has(a, "lang") THEN a.lang ELSE <<"e", "n">> >>
                    /\ Len(SearchParamsGet(url, P_NB_RESULTS)) = 1
                    /\ ParseNat(SearchParamsGet(url, P_NB_RESULTS)[1]) =
                         (IF Has(a, "nb_results") THEN a.nb_results ELSE 5)
                    /\ SearchParamsGet(url, P_RELATED) = <<V_FALSE>>
                    /\ Len(url.query) = 4

(* C9: a listProjects call has issued exactly one request, a GET to        *)
(* /v2/projects with the credential and the language (en when none is      *)
(* given); answered with a success status and a JSON body it has returned  *)
(* the value of the body, and answered with a non-2xx status it has failed *)
(* with the error that carries the status code and the status text.        *)
C9_ListProjects ==
    \A c \in ListCalls :
        LET call == calls[c]
            url  == call.reqs[1].url
        IN  /\ Len(call.reqs) = 1
            /\ call.reqs[1].method = "GET"
            /\ url.host = BASE_URL
            /\ url.path = <<SEG_V2, SEG_PROJECTS>>
            /\ url.query = <<[k |-> P_API_KEY, v |-> ctor.apiKey],
                             [k |-> P_LANG,
                              v |-> IF call.args = <<>> THEN <<"e", "n">> ELSE call.args[1]]>>
            /\ (call.resps # <<>> /\ Succeeded(call, 1) /\ Parseable(call.resps[1])) =>
                  call.outcome = Return(call.resps[1].body.value)
            /\ (call.resps # <<>> /\ Failed(call, 1)) =>
                  call.outcome = Throw(Error(<<"PlantNet API error ", call.resps[1].status,
                                               ": ", call.resps[1].statusText>>))

\* a listProjects call for French that was answered 403
C9_Witness ==
    \E c \in ListCalls :
        /\ calls[c].args = << <<"f", "r">> >>
        /\ calls[c].resps # <<>>
        /\ Failed(calls[c], 1)
        /\ calls[c].resps[1].status = 403

(* C10: createPlantNetServer succeeds when PLANTNET_API_KEY is set, and it *)
(* succeeds as well when PLANTNET_API_KEY is unset and only the fallback   *)
(* PLANTNET_API is set.                                                    *)
C10_FallbackAsStated ==
    server.status # "none" =>
        /\ (env.PLANTNET_API_KEY # <<>> /\ env.PLANTNET_API_KEY[1] # <<>>) =>
              server.status = "created"
        /\ (env.PLANTNET_API_KEY = <<>> /\ env.PLANTNET_API # <<>> /\ env.PLANTNET_API[1] # <<>>) =>
              server.status = "created"

(* C11: when PLANTNET_API_KEY is unset or empty and PLANTNET_API is unset  *)
(* or empty, createPlantNetServer has failed with the error that names     *)
(* PLANTNET_API_KEY, and there is no server, no client, and no call.       *)
C11_NoCredentialNoServer ==
    LET unset(v) == v = <<>> \/ v[1] = <<>>
    IN  (server.status # "none" /\ unset(env.PLANTNET_API_KEY) /\ unset(env.PLANTNET_API)) =>
            /\ server.status = "failed"
            /\ server.error.name = "Error"
            /\ server.error.message[1] = "PLANTNET_API_KEY environment variable is required. "
            /\ client = NoClient
            /\ ~ctor.called
            /\ \A c \in DOMAIN calls : calls[c] = IdleCall

\* the server was started with both variables unset, and with both empty
C11_Witness ==
    /\ server.status = "failed"
    /\ env.PLANTNET_API_KEY = <<>>
    /\ env.PLANTNET_API = <<>>

C11_WitnessEmpty ==
    /\ server.status = "failed"
    /\ env.PLANTNET_API_KEY = << <<>> >>
    /\ env.PLANTNET_API = << <<>> >>

(* C12: the text of an identify_plant result has one block per candidate  *)
(* of the results list, in the order of the list and numbered 1..n,       *)
(* whatever the scores are: block i names the species, the confidence,    *)
(* the family and the genus of candidate i, and no other block exists.    *)
C12_BlocksInListOrder ==
    \A c \in DOMAIN calls :
        (calls[c].tool = "identify_plant" /\ calls[c].toolOutcome.kind = "return") =>
            LET results == calls[c].outcome.value.results
                text    == calls[c].toolOutcome.value.content[1].text
                starts  == {k \in 1..Len(text) : Len(text[k]) = 7}
                heads   == SelectSeq(text, LAMBDA l : Len(l) = 7)
            IN  /\ Len(heads) = Len(results)
                /\ \A i \in 1..Len(heads) : heads[i][2] = i
                /\ \A k \in starts :
                     /\ text[k][2] \in 1..Len(results)
                     /\ text[k][4] = results[text[k][2]].species.scientificNameWithoutAuthor
                     /\ text[k][6] = Confidence(results[text[k][2]].score)
                     /\ text[k + 2] = <<"   - Family: ",
                                        results[text[k][2]].species.family.scientificNameWithoutAuthor>>
                     /\ text[k + 3] = <<"   - Genus: ",
                                        results[text[k][2]].species.genus.scientificNameWithoutAuthor>>

\* a text was returned for three candidates, one of them twice, that are not
\* listed by decreasing score
C12_Witness ==
    \E c \in DOMAIN calls :
        /\ calls[c].tool = "identify_plant"
        /\ calls[c].toolOutcome.kind = "return"
        /\ calls[c].outcome.value.results = <<Fern, Oak, Fern>>

C14_NoRetries ==
    /\ \A c \in IdentifyCalls :
         LET call == calls[c]
             n    == NumImages(call)
         IN  /\ Len(call.reqs) <= n + 1
             /\ \A k \in 1..Len(call.reqs) :
                  IF k <= n
                  THEN call.reqs[k].method = "GET" /\ call.reqs[k].url = call.args.image_urls[k]
                  ELSE call.reqs[k].method = "POST"
             /\ Len(Posts(call)) <= 1
             /\ \A k \in 1..Len(call.resps) :
                  ~Succeeded(call, k) =>
                      /\ k = Len(call.resps)
                      /\ call.pc = "done"
                      /\ call.outcome.kind = "throw"
             /\ call.pc = "done" => Len(call.reqs) = Len(call.resps)
    /\ \A c \in ListCalls :
         /\ Len(calls[c].reqs) = 1
         /\ calls[c].reqs[1].method = "GET"
         /\ Len(calls[c].resps) <= 1
         /\ calls[c].pc = "done" => Len(calls[c].resps) = 1

\* a call of three images whose third image request was rejected
C14_Witness ==
    \E c \in IdentifyCalls :
        /\ NumImages(calls[c]) = 3
        /\ Len(calls[c].resps) = 3
        /\ calls[c].resps[3].kind = "reject"
        /\ calls[c].pc = "done"

(* C15: the image requests of an identifyPlant call go out one at a time   *)
(* in the order of the list: at most one request is unanswered, every      *)
(* request but the first was issued after the one before it was answered   *)
(* with a success status, and a POST is there only when all n images were  *)
(* answered with a success status.                                         *)
C15_OneAtATime ==
    \A c \in IdentifyCalls :
        LET call == calls[c]
            n    == NumImages(call)
        IN  /\ Len(call.reqs) - Len(call.resps) \in {0, 1}
            /\ \A k \in 2..Len(call.reqs) : Succeeded(call, k - 1)
            /\ \A k \in 1..Len(call.reqs) :
                 call.reqs[k].method = "GET" =>
                     /\ k <= n
                     /\ call.reqs[k] = ImageFetch(call.args.image_urls[k])
            /\ Posts(call) # <<>> =>
                 /\ Len(call.reqs) = n + 1
                 /\ \A k \in 1..n : Succeeded(call, k)

\* the second of three images has been answered and the third is awaited
C15_Witness ==
    \E c \in IdentifyCalls :
        /\ NumImages(calls[c]) = 3
        /\ Len(calls[c].resps) = 2
        /\ Len(calls[c].reqs) = 3
        /\ calls[c].pc = "awaitImage"

(* C16: with two identifyPlant calls in flight on one client, whatever the *)
(* order of their steps, the body a call posts holds the bytes answered to *)
(* its own image requests and its own organ tags and nothing else, and the *)
(* whole of a call, its outcome included, is what the same request gives   *)
(* when it runs alone and gets the same answers.                           *)
C16_CallsDoNotInterfere ==
    \A c \in IdentifyCalls :
        LET call == calls[c]
            n    == NumImages(call)
        IN  /\ \A p \in 1..Len(call.reqs) :
                 call.reqs[p].method = "POST" =>
                     /\ Len(call.reqs[p].body) = 2 * n
                     /\ \A i \in 1..n :
                          /\ call.reqs[p].body[2 * i - 1].name = "images"
                          /\ call.reqs[p].body[2 * i - 1].data = call.resps[i].body
                          /\ call.reqs[p].body[2 * i] = [name |-> "organs", value |-> call.args.organs[i]]
            /\ call = Replay(client.apiKey, call.args, call.resps)

\* both calls await the answer to their POST, for different requests, and the
\* images they were given differ
C16_Witness ==
    /\ DOMAIN calls = ConcCallIds
    /\ calls[1].pc = "awaitPost"
    /\ calls[2].pc = "awaitPost"
    /\ NumImages(calls[1]) = 1
    /\ NumImages(calls[2]) = 2
    /\ calls[1].resps[1].body # calls[2].resps[2].body

(* C17: the lengths of the two lists decide the validation error of an     *)
(* identifyPlant call. No image: 'At least one image URL is required',     *)
(* organs or not. Images, and another number of organs: 'Number of         *)
(* image_urls must match number of organs'. As many organs as images, more *)
(* than 5: 'Maximum 5 images per request'. Any other call does not end     *)
(* with one of these errors.                                               *)
C17_ErrorByLengths ==
    \A c \in IdentifyCalls :
        LET ni  == Len(calls[c].args.image_urls)
            no  == Len(calls[c].args.organs)
            err(text) == calls[c].pc = "done" /\ calls[c].outcome = Throw(Error(<<text>>))
        IN  /\ ni = 0 => err("At least one image URL is required")
            /\ (ni > 0 /\ ni # no) => err("Number of image_urls must match number of organs")
            /\ (ni = no /\ ni > 5) => err("Maximum 5 images per request")
            /\ (ni = no /\ ni \in 1..5) =>
                 ~(\/ err("At least one image URL is required")
                   \/ err("Number of image_urls must match number of organs")
                   \/ err("Maximum 5 images per request"))

\* a call with six images and fewer organs, not none, was refused
C17_Witness ==
    \E c \in IdentifyCalls :
        /\ Len(calls[c].args.image_urls) = 6
        /\ Len(calls[c].args.organs) \in 1..5
        /\ calls[c].pc = "done"

\* a call with no image and some organs was refused
C17_WitnessNoImage ==
    \E c \in IdentifyCalls :
        /\ Len(calls[c].args.image_urls) = 0
        /\ Len(calls[c].args.organs) > 0
        /\ calls[c].pc = "done"

(* C18: a tool call that is over has an outcome for its caller, and every  *)
(* failure is a failure for the caller. When the operation of the client   *)
(* threw, the handler throws an InternalError whose message is 'Tool       *)
(* execution failed: ' followed by the message of that error; when the     *)
(* arguments of identify_plant failed the schema, the client was not       *)
(* called and the handler throws the same way with the issues found; and a *)
(* call whose outcome is a content is check_quota, or a call whose client  *)
(* operation returned a value.                                             *)
C18_FailuresAreReported ==
    \A c \in DOMAIN calls :
        LET call == calls[c]
        IN  (call.tool # "none" /\ call.pc = "done") =>
                /\ call.toolOutcome.kind \in {"return", "throw"}
                /\ call.outcome.kind = "throw" =>
                     call.toolOutcome =
                         Throw([name |-> "McpError", code |-> "InternalError",
                                message |-> <<"Tool execution failed: ", call.outcome.error.message>>])
                /\ (call.tool = "identify_plant" /\ call.op = "none") =>
                     /\ call.toolOutcome.kind = "throw"
                     /\ call.toolOutcome.error.name = "McpError"
                     /\ call.toolOutcome.error.code = "InternalError"
                     /\ call.toolOutcome.error.message[1] = "Tool execution failed: "
                     /\ call.toolOutcome.error.message[2] # <<>>
                /\ call.toolOutcome.kind = "return" =>
                     \/ call.tool = "check_quota"
                     \/ call.op # "none" /\ call.outcome.kind = "return"

\* an identify_plant call whose second image was answered 404
C18_Witness ==
    \E c \in DOMAIN calls :
        /\ calls[c].tool = "identify_plant"
        /\ Len(calls[c].resps) = 2
        /\ Failed(calls[c], 2)
        /\ calls[c].toolOutcome.kind = "throw"

\* an identify_plant call whose POST was answered 401
C18_WitnessUpstream ==
    \E c \in DOMAIN calls :
        /\ calls[c].tool = "identify_plant"
        /\ Posts(calls[c]) # <<>>
        /\ Len(calls[c].resps) = Len(calls[c].reqs)
        /\ Failed(calls[c], Len(calls[c].resps))
        /\ calls[c].toolOutcome.kind = "throw"

(* C19: an identify_plant call with an organ tag other than leaf, flower,  *)
(* fruit, bark, habit, auto, other, or with an image locator that is not a *)
(* well-formed URL, is over with an error, without any operation of the    *)
(* client called and without any request.                                  *)
C19_BadTagOrUrlNoClient ==
    \A c \in DOMAIN calls :
        LET call == calls[c]
            a    == call.toolArgs
        IN  (/\ call.tool = "identify_plant"
             /\ \/ /\ Has(a, "organs")
                   /\ \E k \in 1..Len(a.organs) :
                        a.organs[k] \notin {"leaf", "flower", "fruit", "bark", "habit", "auto", "other"}
                \/ /\ Has(a, "image_urls")
                   /\ \E k \in 1..Len(a.image_urls) : a.image_urls[k] = "not a url") =>
                /\ call.pc = "done"
                /\ call.op = "none"
                /\ call.reqs = <<>>
                /\ call.resps = <<>>
                /\ call.toolOutcome.kind = "throw"

\* a call with two well-formed locators and the organs leaf and root was refused
C19_Witness ==
    \E c \in DOMAIN calls :
        /\ calls[c].tool = "identify_plant"
        /\ DOMAIN calls[c].toolArgs = {"image_urls", "organs"}
        /\ calls[c].toolArgs.organs = <<"leaf", "root">>
        /\ calls[c].toolArgs.image_urls = <<"http://a/1", "http://b/2">>
        /\ calls[c].pc = "done"

\* a call with a locator that is not a URL and two enum organs was refused
C19_WitnessUrl ==
    \E c \in DOMAIN calls :
        /\ calls[c].tool = "identify_plant"
        /\ DOMAIN calls[c].toolArgs = {"image_urls", "organs"}
        /\ calls[c].toolArgs.organs = <<"leaf", "flower">>
        /\ calls[c].toolArgs.image_urls = <<"http://a/1", "not a url">>
        /\ calls[c].pc = "done"

C20_WitnessMismatch ==
    \E c \in DOMAIN calls :
        /\ calls[c].tool = "identify_plant"
        /\ DOMAIN calls[c].toolArgs = {"image_urls", "organs"}
        /\ calls[c].toolArgs.image_urls = <<"http://a/1", "http://b/2">>
        /\ calls[c].toolArgs.organs = <<"leaf">>
        /\ calls[c].op = "identifyPlant"
        /\ calls[c].pc = "done"

C23_AbortOnFirstFailure ==
    \A c \in IdentifyCalls :
        LET call == calls[c]
        IN  \A k \in 1..Len(call.resps) :
                (/\ call.reqs[k].method = "GET"
                 /\ Failed(call, k)
                 /\ \A j \in 1..(k - 1) : ~Failed(call, j)) =>
                    /\ call.pc = "done"
                    /\ Len(call.reqs) = k
                    /\ Len(call.resps) = k
                    /\ \A j \in 1..k :
                         call.reqs[j] = [method |-> "GET", url |-> call.args.image_urls[j]]
                    /\ call.outcome.kind = "throw"
                    /\ call.outcome.error.name = "Error"
                    /\ call.outcome.error.message =
                         <<"Failed to fetch image at ", call.args.image_urls[k], ": ",
                           call.resps[k].statusText>>

\* the second of three locators, which is not the first one again, was answered 404
C23_Witness ==
    \E c \in IdentifyCalls :
        /\ NumImages(calls[c]) = 3
        /\ Len(calls[c].resps) = 2
        /\ Failed(calls[c], 2)
        /\ calls[c].args.image_urls[2] # calls[c].args.image_urls[1]
        /\ calls[c].resps[2].statusText = "Not Found"

C25_NamesAsStated ==
    \A c \in DOMAIN calls :
        (calls[c].tool = "identify_plant" /\ calls[c].toolOutcome.kind = "return") =>
            LET results == calls[c].outcome.value.results
                text    == calls[c].toolOutcome.value.content[1].text
            IN  \A k \in 1..Len(text) :
                    Len(text[k]) = 7 =>
                        LET names == results[text[k][2]].species.commonNames
                            m     == IF Len(names) < 3 THEN Len(names) ELSE 3
                            shown == text[k + 4][2]
                        IN  /\ names = <<>> => shown = <<"none known">>
                            /\ names # <<>> =>
                                 /\ Len(shown) = 2 * m - 1
                                 /\ \A j \in 1..m : shown[2 * j - 1] = names[j]
                                 /\ \A j \in 1..(m - 1) : shown[2 * j] = ", "

(* C25, as the code has it: the common names line shows the first 3 common *)
(* names at most, in their order, joined by ', ', and 'none known' when    *)
(* this text is empty: for a candidate without common names and for one    *)
(* whose only common name is the empty string. The author line shows       *)
(* 'unknown' for an authorship that is empty or absent; a GBIF line is     *)
(* there exactly when the candidate has a gbif identifier, a POWO line     *)
(* exactly when it has a powo identifier, and the block has no other line. *)
C25_BlockDetails ==
    \A c \in DOMAIN calls :
        (calls[c].tool = "identify_plant" /\ calls[c].toolOutcome.kind = "return") =>
            LET results == calls[c].outcome.value.results
                text    == calls[c].toolOutcome.value.content[1].text
            IN  \A k \in 1..Len(text) :
                    Len(text[k]) = 7 =>
                        LET cand   == results[text[k][2]]
                            names  == cand.species.commonNames
                            m      == IF Len(names) < 3 THEN Len(names) ELSE 3
                            shown  == text[k + 4][2]
                            hasG   == "gbif" \in DOMAIN cand
                            hasP   == "powo" \in DOMAIN cand
                            gLine  == k + 5
                            pLine  == IF hasG THEN k + 6 ELSE k + 5
                            last   == k + 5 + (IF hasG THEN 1 ELSE 0) + (IF hasP THEN 1 ELSE 0)
                        IN  /\ text[k + 1][1] = "   - Author: "
                            /\ text[k + 1][2] =
                                 (IF "scientificNameAuthorship" \notin DOMAIN cand.species
                                  THEN "unknown"
                                  ELSE IF cand.species.scientificNameAuthorship = ""
                                  THEN "unknown"
                                  ELSE cand.species.scientificNameAuthorship)
                            /\ text[k + 4][1] = "   - Common names: "
                            /\ (names = <<>> \/ names = <<"">>) => shown = <<"none known">>
                            /\ (names # <<>> /\ names # <<"">>) =>
                                 /\ Len(shown) = 2 * m - 1
                                 /\ \A j \in 1..m : shown[2 * j - 1] = names[j]
                                 /\ \A j \in 1..(m - 1) : shown[2 * j] = ", "
                            /\ hasG => /\ text[gLine][1] = "   - GBIF ID: "
                                       /\ text[gLine][2] = cand.gbif.id
                            /\ hasP => /\ text[pLine][1] = "   - POWO ID: "
                                       /\ text[pLine][2] = cand.powo.id
                            /\ text[last] = <<"">>

\* a text for a candidate with four common names and a gbif identifier only,
\* one without names and with an empty authorship, and one whose only common
\* name is empty
C25_Witness ==
    \E c \in DOMAIN calls :
        /\ calls[c].tool = "identify_plant"
        /\ calls[c].toolOutcome.kind = "return"
        /\ calls[c].outcome.value.results = <<Mint, Rose, Reed>>

(* C26: the text of an identify_plant result has, in this order, the best  *)
(* match, the remaining quota, the engine version, a header with the       *)
(* number of candidates, which is the length of the results list, the      *)
(* blocks of the candidates, and last the closing tip. The text is a       *)
(* function of the value the client returned, and this value is still the  *)
(* body the service answered.                                              *)
C26_FixedOrder ==
    \A c \in DOMAIN calls :
        (calls[c].tool = "identify_plant" /\ calls[c].toolOutcome.kind = "return") =>
            LET data   == calls[c].outcome.value
                text   == calls[c].toolOutcome.value.content[1].text
                n      == Len(text)
                heads  == {k \in 1..n : Len(text[k]) = 7}
                blanks == {k \in 1..n : Len(text[k]) = 1 /\ text[k][1] = ""}
            IN  /\ text[1] = <<"## Plant Identification Results">>
                /\ text[3] = <<"**Best match:** ", data.bestMatch>>
                /\ text[4] = <<"**Remaining daily quota:** ",
                               data.remainingIdentificationRequests, " requests">>
                /\ text[5] = <<"**AI engine version:** ", data.version>>
                /\ text[7] = <<"### Top ", Len(data.results), " Species Matches">>
                /\ Cardinality(heads) = Len(data.results)
                /\ \A k \in heads : 8 < k /\ k < n - 1
                /\ {2, 6, 8} \subseteq blanks
                /\ text[n - 1] = <<"---">>
                /\ text[n] = <<"*Tip: For better accuracy, use clear photos of a single plant part and specify the correct organ.*">>
                /\ text = FormatIdentifyResult(data)
                /\ data = calls[c].resps[Len(calls[c].resps)].body.value

\* a text for no candidate, with no request left for the day
C26_Witness ==
    \E c \in DOMAIN calls :
        /\ calls[c].tool = "identify_plant"
        /\ calls[c].toolOutcome.kind = "return"
        /\ calls[c].outcome.value.results = <<>>
        /\ calls[c].outcome.value.remainingIdentificationRequests = 0

\* a text for three candidates
C26_WitnessThree ==
    \E c \in DOMAIN calls :
        /\ calls[c].tool = "identify_plant"
        /\ calls[c].toolOutcome.kind = "return"
        /\ Len(calls[c].outcome.value.results) = 3

(* C27: a tool call with a name other than identify_plant, list_projects   *)
(* and check_quota is over at once with the MethodNotFound error 'Unknown  *)
(* tool: <name>' as it was thrown, not wrapped into an InternalError, with *)
(* no operation of the client called and no request.                       *)
C27_UnknownTool ==
    \A c \in DOMAIN calls :
        calls[c].tool \notin {"none", "identify_plant", "list_projects", "check_quota"} =>
            /\ calls[c].pc = "done"
            /\ calls[c].op = "none"
            /\ calls[c].reqs = <<>>
            /\ calls[c].resps = <<>>
            /\ calls[c].toolOutcome =
                 [kind |-> "throw",
                  error |-> [name |-> "McpError", code |-> "MethodNotFound",
                             message |-> <<"Unknown tool: ", calls[c].tool>>]]

\* remove_plant was called
C27_Witness ==
    \E c \in DOMAIN calls :
        /\ calls[c].tool = "remove_plant"
        /\ calls[c].toolOutcome.kind = "throw"

(* C28: when the answer to the POST of an identifyPlant call has a body    *)
(* that is no JSON, the call has failed with the error of the parse, for a *)
(* success status and for a non-success status alike; its error is not the *)
(* 'PlantNet API error <status>' error.                                    *)
C28_ParseBeforeStatus ==
    \A c \in IdentifyCalls :
        \A k \in PostAnswers(calls[c]) :
            (calls[c].resps[k].kind = "response" /\ calls[c].resps[k].body.text # "json") =>
                /\ calls[c].pc = "done"
                /\ calls[c].outcome.kind = "throw"
                /\ calls[c].outcome.error.name = "SyntaxError"
                /\ calls[c].outcome.error.message[1] # "PlantNet API error "

\* a POST was answered 401 with a body that is no JSON
C28_Witness ==
    \E c \in IdentifyCalls :
        \E k \in PostAnswers(calls[c]) :
            /\ calls[c].resps[k].kind = "response"
            /\ calls[c].resps[k].status = 401
            /\ calls[c].resps[k].body.text # "json"

\* a POST was answered 200 with a body that is no JSON
C28_WitnessSuccess ==
    \E c \in IdentifyCalls :
        \E k \in PostAnswers(calls[c]) :
            /\ calls[c].resps[k].kind = "response"
            /\ calls[c].resps[k].status = 200
            /\ calls[c].resps[k].body.text # "json"

(* C29: whatever project an identifyPlant call gives, its POST goes to the *)
(* fixed host, its path is /v2/identify/ followed by one last segment that *)
(* is the encoded project, and its query has the four parameters api-key,  *)
(* lang, nb-results and include-related-images and no other.               *)
C29_ProjectConfinedAsStated ==
    \A c \in IdentifyCalls :
        \A p \in 1..Len(calls[c].reqs) :
            calls[c].reqs[p].method = "POST" =>
                LET url     == calls[c].reqs[p].url
                    project == IF Has(calls[c].args, "project")
                               THEN calls[c].args.project ELSE <<"a", "l", "l">>
                IN  /\ url.host = BASE_URL
                    /\ url.path = <<SEG_V2, SEG_IDENTIFY, EncodeURIComponent(project)>>
                    /\ [i \in 1..Len(url.query) |-> url.query[i].k] =
                         <<P_API_KEY, P_LANG, P_NB_RESULTS, P_RELATED>>

\* call c awaits the answer to a request
Awaiting(c) == calls[c].pc \in {"awaitImage", "awaitPost"}

(* C30: on a network that answers every request, an identifyPlant call     *)
(* that awaits an answer is over in the end, and it has issued at most one *)
(* GET per image and one POST; and a call that awaits an answer changes    *)
(* only by getting this answer: without it, it stays as it is and is never *)
(* over.                                                                   *)
C30_CompletesWhenAnswered ==
    /\ \A c \in ConcCallIds : Awaiting(c) ~> (calls[c].pc = "done")
    /\ [](\A c \in IdentifyCalls :
            /\ Len(SelectSeq(calls[c].reqs, LAMBDA r : r.method = "GET")) <= NumImages(calls[c])
            /\ Len(SelectSeq(calls[c].reqs, LAMBDA r : r.method = "POST")) <= 1
            /\ calls[c].pc = "done" => Len(calls[c].resps) = Len(calls[c].reqs))
    /\ [][\A c \in ConcCallIds :
            Awaiting(c) =>
                \/ calls'[c] = calls[c]
                \/ /\ Len(calls'[c].resps) = Len(calls[c].resps) + 1
                   /\ SubSeq(calls'[c].resps, 1, Len(calls[c].resps)) = calls[c].resps]_vars

\* a call of two images is over after two image answers and the answer to its POST
C30_Witness ==
    \E c \in IdentifyCalls :
        /\ NumImages(calls[c]) = 2
        /\ Len(calls[c].resps) = 3
        /\ calls[c].pc = "done"

====
